---- MODULE Spec2Model ----
(***************************************************************************)
(* Model of storageExample.go: the driver blobSamples, the three blob      *)
(* workflows (append, block, page), downloadBlob, and the storage account  *)
(* and working directory they act on.  Every remote call of the program is *)
(* one step; a remote call may fail (transport or service error).          *)
(***************************************************************************)
EXTENDS Integers, Sequences, FiniteSets, TLC

\* ------------------------------------------------------------------ bounds
\* Number of times the program is started one after the other.
MaxRuns == 2
\* Number of distinct states the process-wide math/rand source may start in.
MaxSeed == 2

\* ------------------------------------------------------- program constants
PageSize == 512
AppendLen == 42
BlockLen == 1984
RandBase == 48
RandSpan == 74

\* b.Properties.ContentLength = int64(512 * 5)
PageBlobLength == PageSize * 5

\* Mutant: one page less is written.
pageLenTwo == PageSize * 2

\* pageLen := 512 * 3
pageLen == PageSize * 3

W == {"append", "block", "page"}

\* The blob names main passes to blobSamples.
BlobOf(w) ==
    CASE w = "append" -> "demoAppendBlob"
      [] w = "block" -> "demoBlockBlob"
      [] w = "page" -> "demoPageBlob"

BlobNames == {BlobOf(w) : w \in W}

\* Mutant: every workflow downloads into the same local file.
FileOfShared(w) == "appendBlob.txt"

\* The local file each workflow downloads its blob into.
FileOf(w) ==
    CASE w = "append" -> "appendBlob.txt"
      [] w = "block" -> "blockBlob.txt"
      [] w = "page" -> "pageBlob.txt"

FileNames == {FileOf(w) : w \in W}

\* base64.StdEncoding.EncodeToString([]byte("00000"))
blockID == "MDAwMDA="

Terminal == {"done", "exit", "panic"}

VARIABLES
    emulator,               \* the -emulator flag
    run,                    \* ordinal of the current process
    ended,                  \* how the earlier processes ended
    pc,                     \* position of blobSamples
    err,                    \* the err variable of blobSamples
    exitCode,               \* process exit status (0 while running)
    input,                  \* what fmt.Scanln met on stdin
    wpc,                    \* position of each workflow
    werr,                   \* error returned by each workflow
    rng,                    \* the global math/rand source: seed and draws made
    data,                   \* the data slice of each workflow
    blockList,              \* the lists printBlockList printed, in order
    uncommittedBlocksList,  \* the list blockBlobOperations commits
    pageRanges,             \* PageList returned by GetPageRanges
    container,              \* remote: does the container exist
    blobs,                  \* remote: the blobs of the container, by name
    files,                  \* the working directory, by file name
    calls                   \* calls issued by the current process, in order,
                            \* by the function issuing them

vars == <<emulator, run, ended, pc, err, exitCode, input, wpc, werr, rng, data,
          blockList, uncommittedBlocksList, pageRanges, container, blobs,
          files, calls>>

locals == <<data, blockList, uncommittedBlocksList, pageRanges>>
driver == <<emulator, run, ended, pc, err, exitCode, input>>
remote == <<container, blobs>>

\* ----------------------------------------------------------------- helpers
Zeros(n) == [i \in 1..n |-> 0]

RECURSIVE Flatten(_)
Flatten(ss) == IF ss = <<>> THEN <<>> ELSE Head(ss) \o Flatten(Tail(ss))

NoBlob == [kind |-> "none", content |-> <<>>, committed |-> <<>>,
           uncommitted |-> <<>>, valid |-> {}]

NoFile == [exists |-> FALSE, bytes |-> <<>>]

\* rand.Int(): the k-th value (non-negative) of the stream a source seeded
\* with s produces.
RandInt(s, k) == (s * 31 + k) * (k + 7)

\* Mutant: the slice is made one byte short.
RandomDataShort(strLen, s, p) ==
    [i \in 1..(strLen - 1) |-> (RandInt(s, p + i) % RandSpan) + RandBase]

\* randomData: strLen bytes, each rand.Int() % ('z' - '0') + '0', drawn from
\* the source in state (s, p).
RandomData(strLen, s, p) ==
    [i \in 1..strLen |-> (RandInt(s, p + i) % RandSpan) + RandBase]

Names(bs) == [i \in 1..Len(bs) |-> bs[i].Name]

HasBlock(bs, id) == \E i \in 1..Len(bs) : bs[i].Name = id

Block(bs, id) == bs[CHOOSE i \in 1..Len(bs) : bs[i].Name = id]

\* Put Block: the uncommitted block with this ID is replaced, a new ID is added.
StageBlock(bs, id, d) ==
    IF HasBlock(bs, id)
    THEN [i \in 1..Len(bs) |-> IF bs[i].Name = id THEN [Name |-> id, bytes |-> d] ELSE bs[i]]
    ELSE Append(bs, [Name |-> id, bytes |-> d])

\* Put Block List: can every entry be found in the list its status names?
Resolvable(b, list) ==
    \A i \in 1..Len(list) :
        CASE list[i].Status = "Uncommitted" -> HasBlock(b.uncommitted, list[i].ID)
          [] list[i].Status = "Committed" -> HasBlock(b.committed, list[i].ID)
          [] OTHER -> HasBlock(b.uncommitted, list[i].ID) \/ HasBlock(b.committed, list[i].ID)

Resolve(b, e) ==
    IF e.Status = "Committed" \/ (e.Status = "Latest" /\ ~HasBlock(b.uncommitted, e.ID))
    THEN Block(b.committed, e.ID)
    ELSE Block(b.uncommitted, e.ID)

\* Put Block List: the blob becomes the listed blocks in the order given and
\* every block left uncommitted is discarded.
Commit(b, list) ==
    LET cs == [i \in 1..Len(list) |-> Resolve(b, list[i])]
    IN [b EXCEPT !.committed = cs,
                 !.content = Flatten([i \in 1..Len(cs) |-> cs[i].bytes]),
                 !.uncommitted = <<>>]

\* Get Page Ranges: the maximal runs of written pages, ascending.
RECURSIVE PageList(_, _, _)
PageList(p, n, valid) ==
    IF p >= n THEN <<>>
    ELSE IF p \notin valid THEN PageList(p + 1, n, valid)
    ELSE LET e == CHOOSE q \in p..(n - 1) :
                    /\ \A r \in p..q : r \in valid
                    /\ (q + 1) \notin valid
         IN <<[Start |-> p * PageSize, End |-> (e + 1) * PageSize - 1]>>
            \o PageList(e + 1, n, valid)

\* Put Page: is the range 512-aligned, inside the blob, and as long as the body?
RangeOK(b, br, d) ==
    /\ b.kind = "page"
    /\ br.Start % PageSize = 0
    /\ (br.End + 1) % PageSize = 0
    /\ br.Start <= br.End
    /\ br.End < Len(b.content)
    /\ Len(d) = br.End - br.Start + 1

WritePages(b, br, d) ==
    [b EXCEPT !.content = [i \in 1..Len(b.content) |->
                              IF i - 1 >= br.Start /\ i - 1 <= br.End
                              THEN d[i - br.Start] ELSE b.content[i]],
              !.valid = b.valid \cup ((br.Start \div PageSize)..(br.End \div PageSize))]

Callers == W \cup {"main"}

Logged(t, op, name) ==
    calls' = [calls EXCEPT ![t] = Append(@, [op |-> op, blob |-> name])]

Called(t, op) == \E i \in 1..Len(calls[t]) : calls[t][i].op = op

Return(w, e) ==
    /\ wpc' = [wpc EXCEPT ![w] = "ret"]
    /\ werr' = [werr EXCEPT ![w] = e]

Goto(w, l) ==
    /\ wpc' = [wpc EXCEPT ![w] = l]
    /\ UNCHANGED werr

At(w, l) == pc \notin Terminal /\ wpc[w] = l

\* -------------------------------------------------------------------- Init
\* A first process in a clean working directory against an account without
\* the container.  The -emulator flag is the same in every run (it selects
\* the account); the random source starts in one of MaxSeed states.
Init ==
    /\ emulator \in BOOLEAN
    /\ run = 1
    /\ ended = <<>>
    /\ pc = "create"
    /\ err = "nil"
    /\ exitCode = 0
    /\ input = "none"
    /\ wpc = [w \in W |-> "idle"]
    /\ werr = [w \in W |-> "nil"]
    /\ rng \in [seed : 1..MaxSeed, pos : {0}]
    /\ data = [w \in W |-> <<>>]
    /\ blockList = <<>>
    /\ uncommittedBlocksList = <<>>
    /\ pageRanges = <<>>
    /\ container = FALSE
    /\ blobs = [n \in BlobNames |-> NoBlob]
    /\ files = [f \in FileNames |-> NoFile]
    /\ calls = [t \in Callers |-> <<>>]


\* ------------------------------------------------------------- blobSamples
\* Mutant: the error is printed and the program carries on.
OnErrorPrint(e, next) ==
    /\ err' = e
    /\ pc' = next
    /\ exitCode' = exitCode

\* err = e; onErrorFail(err, ...): os.Exit(1) when err is not nil, otherwise
\* go on to next.
onErrorFail(e, next) ==
    /\ err' = e
    /\ pc' = IF e # "nil" THEN "exit" ELSE next
    /\ exitCode' = IF e # "nil" THEN 1 ELSE exitCode

\* Mutant: the prompt is printed but stdin is never read.
AfterListNoScan == "delete"

\* What follows a successful printBlobList: the prompt and fmt.Scanln.
AfterList == "scan"

\* cnt.CreateIfNotExists and the onErrorFail that follows it.
CreateContainer ==
    /\ pc = "create"
    /\ Logged("main", "CreateIfNotExists", "")
    /\ \E ok \in BOOLEAN :
        /\ container' = (container \/ ok)
        /\ onErrorFail(IF ok THEN "nil" ELSE "create container failed",
                       IF emulator THEN "callBlock" ELSE "callAppend")
    /\ UNCHANGED <<emulator, run, ended, input, wpc, werr, rng, locals, blobs, files>>

Call(at, w, first, in) ==
    /\ pc = at
    /\ wpc[w] = "idle"
    /\ wpc' = [wpc EXCEPT ![w] = first]
    /\ pc' = in
    /\ UNCHANGED <<emulator, run, ended, err, exitCode, input, werr, rng, locals, remote,
                   files, calls>>

Check(in, w, next) ==
    /\ pc = in
    /\ wpc[w] = "ret"
    /\ onErrorFail(werr[w], next)
    /\ UNCHANGED <<emulator, run, ended, input, wpc, werr, rng, locals, remote,
                   files, calls>>

CallAppend == Call("callAppend", "append", "PutAppendBlob", "inAppend")
CheckAppend == Check("inAppend", "append", "callBlock")
CallBlock == Call("callBlock", "block", "CreateBlockBlob", "inBlock")
CheckBlock == Check("inBlock", "block", "callPage")
CallPage == Call("callPage", "page", "PutPageBlob", "inPage")
CheckPage == Check("inPage", "page", "list")

\* printBlobList and the onErrorFail that follows it.
PrintBlobList ==
    /\ pc = "list"
    /\ Logged("main", "ListBlobs", "")
    /\ \E ok \in BOOLEAN :
        /\ ok => container
        /\ onErrorFail(IF ok THEN "nil" ELSE "list blobs failed", AfterList)
    /\ UNCHANGED <<emulator, run, ended, input, wpc, werr, rng, locals, remote, files>>

\* fmt.Scanln(&input): returns on a line or on end of input; its result is dropped.
Scanln ==
    /\ pc = "scan"
    /\ input' \in {"line", "EOF"}
    /\ Logged("main", "Scanln", "")
    /\ pc' = "delete"
    /\ UNCHANGED <<emulator, run, ended, err, exitCode, wpc, werr, rng, locals, remote, files>>

\* cnt.Delete and the onErrorFail that follows it.
DeleteContainer ==
    /\ pc = "delete"
    /\ Logged("main", "Delete", "")
    /\ \E ok \in BOOLEAN :
        /\ ok => container
        /\ container' = (container /\ ~ok)
        /\ blobs' = IF ok THEN [n \in BlobNames |-> NoBlob] ELSE blobs
        /\ onErrorFail(IF ok THEN "nil" ELSE "delete container failed", "remove")
    /\ UNCHANGED <<emulator, run, ended, input, wpc, werr, rng, locals, files>>

\* Mutant: the local files are left in place.
KeepFiles == files

\* The three os.Remove calls: each named file is gone afterwards.
RemovedFiles == [f \in DOMAIN files |-> IF f \in FileNames THEN NoFile ELSE files[f]]

RemoveFiles ==
    /\ pc = "remove"
    /\ files' = RemovedFiles
    /\ calls' = [calls EXCEPT !["main"] = @ \o
                    <<[op |-> "Remove", blob |-> "appendBlob.txt"],
                      [op |-> "Remove", blob |-> "blockBlob.txt"],
                      [op |-> "Remove", blob |-> "pageBlob.txt"]>>]
    /\ pc' = "done"
    /\ UNCHANGED <<emulator, run, ended, err, exitCode, input, wpc, werr, rng, locals,
                   remote>>

\* The program is started again: init and main of a new process.
Restart ==
    /\ pc \in Terminal
    /\ run < MaxRuns
    /\ run' = run + 1
    /\ ended' = Append(ended, pc)
    /\ pc' = "create"
    /\ err' = "nil"
    /\ exitCode' = 0
    /\ input' = "none"
    /\ wpc' = [w \in W |-> "idle"]
    /\ werr' = [w \in W |-> "nil"]
    /\ rng' \in [seed : 1..MaxSeed, pos : {0}]
    /\ data' = [w \in W |-> <<>>]
    /\ blockList' = <<>>
    /\ uncommittedBlocksList' = <<>>
    /\ pageRanges' = <<>>
    /\ calls' = [t \in Callers |-> <<>>]
    /\ UNCHANGED <<emulator, remote, files>>


\* ------------------------------------------------------------ downloadBlob
\* Mutant: the existence check is skipped.
StatNever(f) == FALSE

\* os.Stat(fileName) returns a nil error: the file exists.
StatOK(f) == files[f].exists

\* downloadBlob(b, fileName) as called by workflow w.  b.Get may fail with a
\* nil reader or with a reader; readCloser.Close() is deferred before err is
\* looked at, and on a nil reader it is a nil dereference: the process panics.
downloadBlob(w) ==
    /\ At(w, "downloadBlob")
    /\ LET f == FileOf(w)
           n == BlobOf(w)
       IN \/ /\ StatOK(f)
             /\ Return(w, "download blob failed: file already exists")
             /\ UNCHANGED <<pc, exitCode, files, calls>>
          \/ /\ ~StatOK(f)
             /\ Logged(w, "Get", n)
             /\ \/ /\ pc' = "panic"
                   /\ exitCode' = 2
                   /\ UNCHANGED <<wpc, werr, files>>
                \/ /\ Return(w, "download blob failed: get blob failed")
                   /\ UNCHANGED <<pc, exitCode, files>>
                \/ /\ container /\ blobs[n].kind # "none"
                   /\ UNCHANGED <<pc, exitCode>>
                   /\ \/ /\ Return(w, "download blob failed: read body failed")
                         /\ UNCHANGED files
                      \/ /\ Return(w, "download blob failed: write file failed")
                         /\ \E left \in {NoFile, [exists |-> TRUE, bytes |-> <<>>]} :
                                files' = [files EXCEPT ![f] = left]
                      \/ /\ Return(w, "nil")
                         /\ files' = [files EXCEPT
                                         ![f] = [exists |-> TRUE, bytes |-> blobs[n].content]]
    /\ UNCHANGED <<emulator, run, ended, err, input, rng, locals, remote>>

\* ---------------------------------------------------- appendBlobOperations
PutAppendBlob ==
    /\ At("append", "PutAppendBlob")
    /\ Logged("append", "PutAppendBlob", BlobOf("append"))
    /\ \/ /\ container
          /\ blobs' = [blobs EXCEPT ![BlobOf("append")] = [NoBlob EXCEPT !.kind = "append"]]
          /\ Goto("append", "AppendBlock")
       \/ /\ Return("append", "put append blob failed")
          /\ UNCHANGED blobs
    /\ UNCHANGED <<driver, rng, locals, container, files>>

AppendBlock ==
    /\ At("append", "AppendBlock")
    /\ LET d == RandomData(AppendLen, rng.seed, rng.pos)
           n == BlobOf("append")
       IN /\ data' = [data EXCEPT !["append"] = d]
          /\ rng' = [rng EXCEPT !.pos = @ + AppendLen]
          /\ Logged("append", "AppendBlock", n)
          /\ \/ /\ container /\ blobs[n].kind = "append"
                /\ blobs' = [blobs EXCEPT ![n].content = @ \o d]
                /\ Goto("append", "downloadBlob")
             \/ /\ Return("append", "append block failed")
                /\ UNCHANGED blobs
    /\ UNCHANGED <<driver, blockList, uncommittedBlocksList, pageRanges, container, files>>

\* ----------------------------------------------------- blockBlobOperations
CreateBlockBlob ==
    /\ At("block", "CreateBlockBlob")
    /\ Logged("block", "CreateBlockBlob", BlobOf("block"))
    /\ \/ /\ container
          /\ blobs' = [blobs EXCEPT ![BlobOf("block")] = [NoBlob EXCEPT !.kind = "block"]]
          /\ Goto("block", "PutBlock")
       \/ /\ Return("block", "create block blob failed")
          /\ UNCHANGED blobs
    /\ UNCHANGED <<driver, rng, locals, container, files>>

PutBlock ==
    /\ At("block", "PutBlock")
    /\ LET d == RandomData(BlockLen, rng.seed, rng.pos)
           n == BlobOf("block")
       IN /\ data' = [data EXCEPT !["block"] = d]
          /\ rng' = [rng EXCEPT !.pos = @ + BlockLen]
          /\ Logged("block", "PutBlock", n)
          /\ \/ /\ container /\ blobs[n].kind = "block"
                /\ blobs' = [blobs EXCEPT ![n].uncommitted = StageBlock(@, blockID, d)]
                /\ Goto("block", "printBlockList1")
             \/ /\ Return("block", "put block failed")
                /\ UNCHANGED blobs
    /\ UNCHANGED <<driver, blockList, uncommittedBlocksList, pageRanges, container, files>>

\* printBlockList(b) at either of its two call sites.
printBlockList(at, next) ==
    /\ At("block", at)
    /\ LET b == blobs[BlobOf("block")]
       IN /\ Logged("block", "GetBlockList:All", BlobOf("block"))
          /\ \/ /\ container /\ b.kind = "block"
                /\ blockList' = Append(blockList,
                                       [CommittedBlocks |-> Names(b.committed),
                                        UncommittedBlocks |-> Names(b.uncommitted)])
                /\ Goto("block", next)
             \/ /\ Return("block", "get block list failed")
                /\ UNCHANGED blockList
    /\ UNCHANGED <<driver, rng, data, uncommittedBlocksList, pageRanges, remote, files>>

\* Mutant: the blocks are referenced as already committed.
AsCommitted(names) == [i \in 1..Len(names) |-> [ID |-> names[i], Status |-> "Committed"]]

\* The loop that builds uncommittedBlocksList from list.UncommittedBlocks.
BuildBlockList(names) == [i \in 1..Len(names) |-> [ID |-> names[i], Status |-> "Uncommitted"]]

GetBlockList ==
    /\ At("block", "GetBlockList")
    /\ LET b == blobs[BlobOf("block")]
       IN /\ Logged("block", "GetBlockList:Uncommitted", BlobOf("block"))
          /\ \/ /\ container /\ b.kind = "block"
                /\ uncommittedBlocksList' = BuildBlockList(Names(b.uncommitted))
                /\ Goto("block", "PutBlockList")
             \/ /\ Return("block", "get block list failed")
                /\ UNCHANGED uncommittedBlocksList
    /\ UNCHANGED <<driver, rng, data, blockList, pageRanges, remote, files>>

PutBlockList ==
    /\ At("block", "PutBlockList")
    /\ LET n == BlobOf("block")
       IN /\ Logged("block", "PutBlockList", n)
          /\ \/ /\ container /\ blobs[n].kind = "block"
                /\ Resolvable(blobs[n], uncommittedBlocksList)
                /\ blobs' = [blobs EXCEPT ![n] = Commit(@, uncommittedBlocksList)]
                /\ Goto("block", "printBlockList2")
             \/ /\ Return("block", "put block list failed")
                /\ UNCHANGED blobs
    /\ UNCHANGED <<driver, rng, locals, container, files>>

\* ------------------------------------------------------ pageBlobOperations
PutPageBlob ==
    /\ At("page", "PutPageBlob")
    /\ Logged("page", "PutPageBlob", BlobOf("page"))
    /\ \/ /\ container
          /\ PageBlobLength % PageSize = 0
          /\ blobs' = [blobs EXCEPT ![BlobOf("page")] =
                          [NoBlob EXCEPT !.kind = "page", !.content = Zeros(PageBlobLength)]]
          /\ Goto("page", "WriteRange")
       \/ /\ Return("page", "put page blob failed")
          /\ UNCHANGED blobs
    /\ UNCHANGED <<driver, rng, locals, container, files>>

\* storage.BlobRange{End: uint64(pageLen - 1)}; Start is left zero.
BlobRange == [Start |-> 0, End |-> pageLen - 1]

WriteRange ==
    /\ At("page", "WriteRange")
    /\ LET d == RandomData(pageLen, rng.seed, rng.pos)
           n == BlobOf("page")
       IN /\ data' = [data EXCEPT !["page"] = d]
          /\ rng' = [rng EXCEPT !.pos = @ + pageLen]
          /\ Logged("page", "WriteRange", n)
          /\ \/ /\ container /\ RangeOK(blobs[n], BlobRange, d)
                /\ blobs' = [blobs EXCEPT ![n] = WritePages(@, BlobRange, d)]
                /\ Goto("page", "GetPageRanges")
             \/ /\ Return("page", "write range failed")
                /\ UNCHANGED blobs
    /\ UNCHANGED <<driver, blockList, uncommittedBlocksList, pageRanges, container, files>>

GetPageRanges ==
    /\ At("page", "GetPageRanges")
    /\ LET b == blobs[BlobOf("page")]
       IN /\ Logged("page", "GetPageRanges", BlobOf("page"))
          /\ \/ /\ container /\ b.kind = "page"
                /\ pageRanges' = PageList(0, Len(b.content) \div PageSize, b.valid)
                /\ Goto("page", "downloadBlob")
             \/ /\ Return("page", "get page ranges failed")
                /\ UNCHANGED pageRanges
    /\ UNCHANGED <<driver, rng, data, blockList, uncommittedBlocksList, remote, files>>

\* ------------------------------------------------------------------- specs
Workflows ==
    \/ PutAppendBlob \/ AppendBlock
    \/ CreateBlockBlob \/ PutBlock
    \/ printBlockList("printBlockList1", "GetBlockList")
    \/ GetBlockList \/ PutBlockList
    \/ printBlockList("printBlockList2", "downloadBlob")
    \/ PutPageBlob \/ WriteRange \/ GetPageRanges
    \/ \E w \in W : downloadBlob(w)

Next ==
    \/ CreateContainer
    \/ CallAppend \/ CheckAppend
    \/ CallBlock \/ CheckBlock
    \/ CallPage \/ CheckPage
    \/ Workflows
    \/ PrintBlobList \/ Scanln \/ DeleteContainer \/ RemoveFiles
    \/ Restart

Spec == Init /\ [][Next]_vars


\* The three workflows started together instead of one after the other (the
\* order-insensitive execution of the blob workflows): every workflow the run
\* executes is started at once and their steps interleave freely.
Ran == IF emulator THEN W \ {"append"} ELSE W

First(w) ==
    CASE w = "append" -> "PutAppendBlob"
      [] w = "block" -> "CreateBlockBlob"
      [] w = "page" -> "PutPageBlob"

ParStart ==
    /\ pc \in {"callAppend", "callBlock"}
    /\ \A w \in W : wpc[w] = "idle"
    /\ wpc' = [w \in W |-> IF w \in Ran THEN First(w) ELSE "idle"]
    /\ pc' = "inAll"
    /\ UNCHANGED <<emulator, run, ended, err, exitCode, input, werr, rng, locals, remote,
                   files, calls>>

\* onErrorFail on each workflow's result: the first error ends the process.
ParJoin ==
    /\ pc = "inAll"
    /\ \/ \E w \in Ran : wpc[w] = "ret" /\ werr[w] # "nil" /\ onErrorFail(werr[w], "list")
       \/ /\ \A w \in Ran : wpc[w] = "ret" /\ werr[w] = "nil"
          /\ onErrorFail("nil", "list")
    /\ UNCHANGED <<emulator, run, ended, input, wpc, werr, rng, locals, remote,
                   files, calls>>

NextPar ==
    \/ CreateContainer
    \/ ParStart \/ ParJoin
    \/ Workflows
    \/ PrintBlobList \/ Scanln \/ DeleteContainer \/ RemoveFiles

SpecPar == Init /\ [][NextPar]_vars


\* ------------------------------------------------------------------ claims
Exists == "download blob failed: file already exists"

Succeeded(w) == wpc[w] = "ret" /\ werr[w] = "nil"

\* The workflow has returned nil and the cleanup has not begun.
Completed(w) == Succeeded(w) /\ ~Called("main", "Delete")

Count(t, op) == Cardinality({i \in 1..Len(calls[t]) : calls[t][i].op = op})

IDs(list) == [i \in 1..Len(list) |-> list[i].ID]

Covered(ranges) == UNION {ranges[i].Start..ranges[i].End : i \in 1..Len(ranges)}

\* C1: whenever downloadBlob is called for a local path that exists, the step
\* returns the already-exists error, issues no call (no remote get) and leaves
\* every local file as it was.
C1_RefusesOverwrite ==
    [][\A w \in W :
        (At(w, "downloadBlob") /\ files[FileOf(w)].exists)
            => /\ wpc'[w] = "ret"
               /\ werr'[w] = Exists
               /\ calls' = calls
               /\ files' = files]_vars

C1_Witness ==
    \E w \in W : /\ wpc[w] = "ret" /\ werr[w] = Exists
                 /\ files[FileOf(w)].exists
                 /\ ~Called(w, "Get")

\* C2: in blockBlobOperations the first block list printed (after create and
\* one staged block B) shows B uncommitted and nothing committed; the list
\* committed references exactly the IDs the service reports uncommitted, in
\* that order, as Uncommitted; the second list printed shows B committed and
\* nothing uncommitted; and the downloaded file holds B's 1984 bytes.
C2_BlockRoundTrip ==
    LET b == blobs[BlobOf("block")]
        B == data["block"]
    IN /\ Len(blockList) >= 1
            => blockList[1] = [CommittedBlocks |-> <<>>, UncommittedBlocks |-> <<blockID>>]
       /\ wpc["block"] = "PutBlockList"
            => /\ IDs(uncommittedBlocksList) = Names(b.uncommitted)
               /\ \A i \in 1..Len(uncommittedBlocksList) :
                      uncommittedBlocksList[i].Status = "Uncommitted"
               /\ b.uncommitted = <<[Name |-> blockID, bytes |-> B]>>
               /\ b.committed = <<>>
       /\ Len(blockList) >= 2
            => blockList[2] = [CommittedBlocks |-> <<blockID>>, UncommittedBlocks |-> <<>>]
       /\ wpc["block"] \in {"printBlockList2", "downloadBlob"} \/ Completed("block")
            => /\ b.content = B
               /\ Names(b.committed) = <<blockID>>
               /\ b.uncommitted = <<>>
       /\ Completed("block")
            => /\ Len(B) = 1984
               /\ files[FileOf("block")] = [exists |-> TRUE, bytes |-> B]

C2_Witness ==
    /\ Completed("block")
    /\ Len(blockList) = 2
    /\ files[FileOf("block")].bytes = data["block"]

\* C3: whenever appendBlobOperations returns nil it has created the append
\* blob (empty, whatever it held before), appended one payload P of 42 bytes,
\* and the local file holds exactly P.
C3_AppendRoundTrip ==
    LET b == blobs[BlobOf("append")]
        P == data["append"]
    IN /\ wpc["append"] = "AppendBlock" => (b.kind = "append" /\ b.content = <<>>)
       /\ Completed("append")
            => /\ Count("append", "PutAppendBlob") = 1
               /\ Count("append", "AppendBlock") = 1
               /\ Len(P) = 42
               /\ b.content = P
               /\ files[FileOf("append")] = [exists |-> TRUE, bytes |-> P]

C3_Witness ==
    /\ run = 2
    /\ Completed("append")
    /\ files[FileOf("append")].bytes = data["append"]

\* C4: pageBlobOperations declares 2560 bytes, writes 1536 bytes at [0, 1535],
\* both 512-aligned; the page ranges then returned cover exactly [0, 1535],
\* and the downloaded file is 2560 bytes: the data written, then zeros.
C4_PageWorkflow ==
    LET b == blobs[BlobOf("page")]
        d == data["page"]
        f == files[FileOf("page")]
    IN /\ PageBlobLength = 2560 /\ PageBlobLength % 512 = 0
       /\ wpc["page"] \in {"GetPageRanges", "downloadBlob"} \/ Completed("page")
            => /\ Len(d) = 1536
               /\ BlobRange.Start % 512 = 0
               /\ (BlobRange.End + 1) % 512 = 0
               /\ BlobRange = [Start |-> 0, End |-> 1535]
               /\ BlobRange.End < Len(b.content)
       /\ wpc["page"] = "downloadBlob" \/ Completed("page")
            => Covered(pageRanges) = 0..1535
       /\ Completed("page")
            => /\ f.exists
               /\ Len(f.bytes) = 2560
               /\ \A i \in 1..1536 : f.bytes[i] = d[i] /\ d[i] # 0
               /\ \A i \in 1537..2560 : f.bytes[i] = 0

C4_Witness ==
    /\ Completed("page")
    /\ pageRanges = <<[Start |-> 0, End |-> 1535]>>
    /\ Len(files[FileOf("page")].bytes) = 2560

\* C6: an error from container provisioning, from a workflow or from the
\* listing ends the process with a non-zero status at that point: once a
\* workflow has returned an error the only step is the exit, which issues no
\* call and changes nothing remote or local; a driver call that sets err
\* exits in the same step; and after the exit the process does nothing more.
C6_FatalErrors ==
    [][run' = run =>
        /\ pc \notin Terminal
        /\ ((\E w \in W : werr[w] # "nil")
               => /\ pc' = "exit" /\ exitCode' = 1
                  /\ calls' = calls /\ files' = files
                  /\ container' = container /\ blobs' = blobs)
        /\ (err' # "nil" => pc' = "exit" /\ exitCode' = 1)
        /\ (pc' = "panic" => exitCode' = 2)
        /\ (pc' = "done" => exitCode' = 0 /\ err' = "nil")]_vars

C6_Witness ==
    /\ pc = "exit"
    /\ exitCode = 1
    /\ werr["block"] # "nil"
    /\ ~Called("page", "PutPageBlob")
    /\ ~Called("main", "ListBlobs")

MainOrder ==
    <<"CreateIfNotExists", "ListBlobs", "Scanln", "Delete", "Remove", "Remove", "Remove">>

Ordered ==
    /\ Len(calls["main"]) <= Len(MainOrder)
    /\ \A i \in 1..Len(calls["main"]) : calls["main"][i].op = MainOrder[i]
    /\ (\E w \in W : calls[w] # <<>>) => Called("main", "CreateIfNotExists")
    /\ Called("main", "Scanln") => (err # "list blobs failed" /\ input # "none")

SerialData(w) ==
    LET a == IF emulator THEN 0 ELSE AppendLen
    IN CASE w = "append" -> RandomData(AppendLen, rng.seed, 0)
         [] w = "block" -> RandomData(BlockLen, rng.seed, a)
         [] w = "page" -> RandomData(pageLen, rng.seed, a + BlockLen)

Expected(w, d) == IF w = "page" THEN d \o Zeros(PageBlobLength - pageLen) ELSE d

AllSucceeded == pc = "inAll" /\ \A w \in Ran : Succeeded(w)

\* C8 as stated: whatever the interleaving, once the workflows have all
\* succeeded the blobs and the files hold what the serial order leaves.
C8_SameAsSerial ==
    AllSucceeded =>
        \A w \in Ran : /\ blobs[BlobOf(w)].content = Expected(w, SerialData(w))
                       /\ files[FileOf(w)].bytes = Expected(w, SerialData(w))

\* The positions of the random source a workflow's randomData call can start at.
Starts == {0, AppendLen, BlockLen, pageLen, AppendLen + BlockLen,
           AppendLen + pageLen, BlockLen + pageLen, AppendLen + BlockLen + pageLen}

Len0(w) ==
    CASE w = "append" -> AppendLen
      [] w = "block" -> BlockLen
      [] w = "page" -> pageLen

\* C8 amended: a step of one workflow leaves the blobs and the files of the
\* other workflows as they were, and in any interleaving, once the workflows
\* have all succeeded, each blob and each file holds the payload its own
\* workflow drew (the page blob: followed by zeros); that payload is the
\* stretch of the shared random source starting where the randomData calls
\* made before it left off.
C8_Independent ==
    /\ [](AllSucceeded =>
            \A w \in Ran :
                /\ blobs[BlobOf(w)].content = Expected(w, data[w])
                /\ files[FileOf(w)] = [exists |-> TRUE, bytes |-> Expected(w, data[w])]
                /\ \E p \in Starts : data[w] = RandomData(Len0(w), rng.seed, p))
    /\ [][pc = "inAll" /\ pc' = "inAll" =>
            \A w \in W :
                wpc'[w] = wpc[w] => /\ blobs'[BlobOf(w)] = blobs[BlobOf(w)]
                                    /\ files'[FileOf(w)] = files[FileOf(w)]
                                    /\ data'[w] = data[w]]_vars

C8_Witness ==
    /\ AllSucceeded
    /\ ~emulator
    /\ data["append"] # SerialData("append")
    /\ files[FileOf("append")].bytes = data["append"]

FreshAfterCreate ==
    /\ wpc["append"] = "AppendBlock"
            => blobs[BlobOf("append")] = [NoBlob EXCEPT !.kind = "append"]
    /\ wpc["block"] = "PutBlock"
            => blobs[BlobOf("block")] = [NoBlob EXCEPT !.kind = "block"]
    /\ wpc["page"] = "WriteRange"
            => blobs[BlobOf("page")] =
                   [NoBlob EXCEPT !.kind = "page", !.content = Zeros(PageBlobLength)]

C10_GetFailureReturned ==
    \A w \in W :
        Called(w, "Get")
            => /\ wpc[w] = "ret"
               /\ (werr[w] = "download blob failed: get blob failed"
                      => ~files[FileOf(w)].exists)

====
